---------------------------- MODULE Spec2Model ----------------------------
(* Model of lunka-src: the platform table and target-triple resolver       *)
(* (src/src/platforms.rs), the Build wrapper around cc::Build              *)
(* (src/src/lib.rs) and LuaConf (src/src/lua_conf.rs).                     *)
(*                                                                         *)
(* Text on which the code does character-level work (target triples, file  *)
(* names, the data of string defines) is a sequence of one-character       *)
(* strings.  Preprocessor symbol names and dialect names are only ever     *)
(* passed through, so they are plain strings.  Option<T> is a sequence of  *)
(* length at most one: None is <<>> and Some(x) is <<x>>.                  *)
(*                                                                         *)
(* The panicking forms new, compile, add_lunka_src and add_lua_src do what  *)
(* their try_ forms do and abort the build process on Err; only             *)
(* for_current, which has no try_ form, is an action of its own.            *)
EXTENDS Naturals, Sequences, FiniteSets

VARIABLES
    triple,     \* the target triple handed to from_target_triple
    resolved,   \* <<>> before the call, <<r>> after it (r: Option<DynPlatform>)
    phase,      \* "idle" | "built" | "failed" (try_new returned Err) | "panicked"
    platform,   \* Some(p): the Platform handed to try_new
    tool,       \* Some(t): the compiler cc::Build::try_get_compiler reported
    cc,         \* Build.cc: the wrapped cc::Build
    disk,       \* the filesystem: what read_dir returns for the source directory
    calls,      \* history: how many calls so far defined each symbol
    last,       \* history: the last operation, its argument and its result
    budget      \* how many more calls on the Build a behaviour explores

vars == <<triple, resolved, phase, platform, tool, cc, disk, calls, last, budget>>

None == <<>>
Some(x) == <<x>>

Range(s) == {s[i] : i \in 1..Len(s)}

----------------------------------------------------------------------------
(* str primitives of the Rust standard library, as the code uses them.     *)

\* s[i..] starts with pat
MatchAt(s, pat, i) ==
    /\ i >= 1
    /\ i + Len(pat) - 1 <= Len(s)
    /\ \A k \in 1..Len(pat) : s[i + k - 1] = pat[k]

\* str::contains(&str)
contains(s, pat) == \E i \in 1..(Len(s) + 1) : MatchAt(s, pat, i)

\* A suffix test that forgets to anchor the match at the end of the text.
ends_with_unanchored(s, pat) == contains(s, pat)

\* str::ends_with(&str)
ends_with(s, pat) ==
    /\ Len(s) >= Len(pat)
    /\ MatchAt(s, pat, Len(s) - Len(pat) + 1)

\* str::replace(char, &str): every occurrence of the character from, left to
\* right, is replaced by the text to.
RECURSIVE replace(_, _, _)
replace(s, from, to) ==
    IF s = <<>> THEN <<>>
    ELSE (IF Head(s) = from THEN to ELSE <<Head(s)>>) \o replace(Tail(s), from, to)

----------------------------------------------------------------------------
(* platforms.rs: the platform table.                                       *)

\* ConstPlatform::STANDARDS, the default of the trait
DefaultStandards ==
    [gnu |-> Some("gnu99"), clang |-> Some("gnu99"),
     msvc |-> Some("c99"), clang_cl |-> Some("gnu99")]

Aix     == [DEFINES |-> <<"LUA_USE_POSIX", "LUA_USE_DLOPEN">>, STANDARDS |-> DefaultStandards]
Bsd     == [DEFINES |-> <<"LUA_USE_POSIX", "LUA_USE_DLOPEN">>, STANDARDS |-> DefaultStandards]
C89     == [DEFINES |-> <<"LUA_USE_POSIX", "LUA_USE_DLOPEN">>,
            STANDARDS |-> [gnu |-> Some("c89"), clang |-> Some("c89"),
                           msvc |-> None, clang_cl |-> Some("c89")]]
FreeBsd == [DEFINES |-> <<"LUA_USE_LINUX">>, STANDARDS |-> DefaultStandards]
Ios     == [DEFINES |-> <<"LUA_USE_IOS">>, STANDARDS |-> DefaultStandards]
Linux   == [DEFINES |-> <<"LUA_USE_LINUX">>, STANDARDS |-> DefaultStandards]
MacOsX  == [DEFINES |-> <<"LUA_USE_MACOSX">>, STANDARDS |-> DefaultStandards]
MinGw   == [DEFINES |-> <<"LUA_BUILD_AS_DLL">>, STANDARDS |-> DefaultStandards]
Posix   == [DEFINES |-> <<"LUA_USE_POSIX">>, STANDARDS |-> DefaultStandards]
Solaris == [DEFINES |-> <<"LUA_USE_POSIX", "LUA_USE_DLOPEN", "_REENTRANT">>,
            STANDARDS |-> DefaultStandards]
Windows == [DEFINES |-> <<"LUA_USE_WINDOWS">>, STANDARDS |-> DefaultStandards]

\* DynPlatform::new::<P>(): the data of P copied into a runtime value
DynPlatform_new(P) == [defines |-> P.DEFINES, standards |-> P.STANDARDS]

\* impl<T: ConstPlatform> Platform for T: what try_new sees of a platform
AsPlatform(P) == [defines |-> P.DEFINES, standards |-> P.STANDARDS]

\* The text literals of from_target_triple
LitLinux       == <<"l","i","n","u","x">>
LitBsd         == <<"b","s","d">>
LitAppleDarwin == <<"a","p","p","l","e","-","d","a","r","w","i","n">>
LitAppleIos    == <<"a","p","p","l","e","-","i","o","s">>
LitSolaris     == <<"s","o","l","a","r","i","s">>
LitWindows     == <<"w","i","n","d","o","w","s">>

\* from_target_triple with the Linux and FreeBSD tests in the other order
from_target_triple_bsd_first(target) ==
    IF ends_with(target, LitBsd) THEN Some(DynPlatform_new(FreeBsd))
    ELSE IF contains(target, LitLinux) THEN Some(DynPlatform_new(Linux))
    ELSE IF ends_with(target, LitAppleDarwin) THEN Some(DynPlatform_new(MacOsX))
    ELSE IF ends_with(target, LitAppleIos) THEN Some(DynPlatform_new(Ios))
    ELSE IF contains(target, LitWindows) THEN Some(DynPlatform_new(Windows))
    ELSE IF ends_with(target, LitSolaris) THEN Some(DynPlatform_new(Solaris))
    ELSE None

\* from_target_triple
from_target_triple(target) ==
    IF contains(target, LitLinux) THEN Some(DynPlatform_new(Linux))
    ELSE IF ends_with(target, LitBsd) THEN Some(DynPlatform_new(FreeBsd))
    ELSE IF ends_with(target, LitAppleDarwin) THEN Some(DynPlatform_new(MacOsX))
    ELSE IF ends_with(target, LitAppleIos) THEN Some(DynPlatform_new(Ios))
    ELSE IF ends_with(target, LitSolaris) THEN Some(DynPlatform_new(Solaris))
    ELSE IF contains(target, LitWindows) THEN Some(DynPlatform_new(Windows))
    ELSE None

----------------------------------------------------------------------------
(* lib.rs: Build, a transparent wrapper around cc::Build.  The wrapped     *)
(* value is a record of what cc::Build accumulates: one dialect, the       *)
(* warning switches, the defines as <<name, Option<value>>> pairs, the     *)
(* include directories, the files and the overwritable scalars.            *)

\* cc::Build::new() as called by try_new
CcBuild_new ==
    [std |-> None, warnings |-> None, extra_warnings |-> None,
     definitions |-> <<>>, include_directories |-> <<>>, files |-> <<>>,
     host |-> None, out_dir |-> None, debug |-> None, opt_level |-> None]

\* What cc::Tool reports of the detected compiler: the answers of
\* is_like_gnu, is_like_clang, is_like_msvc and is_like_clang_cl.  clang-cl
\* is a member of the MSVC family, so it answers yes to the last two.
ToolGnu     == [gnu |-> TRUE,  clang |-> FALSE, msvc |-> FALSE, clang_cl |-> FALSE]
ToolClang   == [gnu |-> FALSE, clang |-> TRUE,  msvc |-> FALSE, clang_cl |-> FALSE]
ToolMsvc    == [gnu |-> FALSE, clang |-> FALSE, msvc |-> TRUE,  clang_cl |-> FALSE]
ToolClangCl == [gnu |-> FALSE, clang |-> FALSE, msvc |-> TRUE,  clang_cl |-> TRUE]
Tools == {ToolGnu, ToolClang, ToolMsvc, ToolClangCl}

\* try_new: the if / else-if chain over the compiler family; the value is
\* the Option handed to set_std.
select_std(t, stds) ==
    IF t.gnu THEN stds.gnu
    ELSE IF t.clang THEN stds.clang
    ELSE IF t.msvc THEN stds.msvc
    ELSE IF t.clang_cl THEN stds.clang_cl
    ELSE None

\* try_new: the closure set_std; cc.std(std) only for Some(std)
set_std(c, std) == IF std # None THEN [c EXCEPT !.std = std] ELSE c

\* cc.define that puts the new pair at the head of the list.
cc_define_front(c, name, value) ==
    [c EXCEPT !.definitions = <<<<name, value>>>> \o @]

\* cc.define(name, value): one more pair at the end of the list
cc_define(c, name, value) ==
    [c EXCEPT !.definitions = Append(@, <<name, value>>)]

\* try_new: for define in p.defines() { cc.define(define, None) }
RECURSIVE apply_platform_defines(_, _)
apply_platform_defines(c, defines) ==
    IF defines = <<>> THEN c
    ELSE apply_platform_defines(cc_define(c, Head(defines), None), Tail(defines))

\* define_flag that skips a flag the list already holds.
define_flag_dedup(c, flag) ==
    IF \E i \in 1..Len(c.definitions) : c.definitions[i][1] = flag
    THEN c
    ELSE cc_define(c, flag, None)

\* Build::define_flag
define_flag(c, flag) == cc_define(c, flag, None)

\* Build::define_lit
define_lit(c, ident, data) == cc_define(c, ident, Some(data))

\* Build::define_str: format!("\"{}\"", data.replace('"', "\\\"").replace('\\', "\\\\"))
escape(data) ==
    <<"\"">> \o replace(replace(data, "\"", <<"\\", "\"">>), "\\", <<"\\", "\\">>)
        \o <<"\"">>

\* Build::define_str
define_str(c, ident, data) == define_lit(c, ident, escape(data))

----------------------------------------------------------------------------
(* The filesystem as read_dir shows it.  A listing is the Result of         *)
(* read_dir: it fails as a whole (ok = FALSE) or yields one Result per      *)
(* entry in directory order.  An entry result is an Err (ok = FALSE) or a   *)
(* DirEntry with its file name and the Result of file_type(): "file",       *)
(* "dir", "symlink" (DirEntry::file_type does not follow links) or "err".   *)
(* The one-character string "?" in a name stands for a byte sequence that   *)
(* is not valid UTF-8, so that OsStr::to_str gives None.                    *)

Invalid == "?"

\* OsStr::to_str
to_str(name) == IF Invalid \in Range(name) THEN None ELSE Some(name)

\* Path::join
join(dir, name) == [dir |-> dir, file |-> name]

\* Path::new(env!("CARGO_MANIFEST_DIR")).join("lua-5.4.8")
LunkaRoot == "CARGO_MANIFEST_DIR/lua-5.4.8"

\* root.join("include"): the include directory of the bundled tree
LunkaInclude == join(LunkaRoot \o "/include", <<>>)

\* root.push("src"): the source directory of the bundled tree
LunkaSrc == LunkaRoot \o "/src"

\* cc.include(path)
cc_include(c, path) == [c EXCEPT !.include_directories = Append(@, path)]

\* cc.file(path)
cc_file(c, path) == [c EXCEPT !.files = Append(@, path)]

\* The loop of try_add_lunka_src without the file-type test.
RECURSIVE lunka_src_loop_all_entries(_, _)
lunka_src_loop_all_entries(c, items) ==
    IF items = <<>> THEN [cc |-> c, result |-> "Ok"]
    ELSE LET item == Head(items) IN
         IF ~item.ok THEN [cc |-> c, result |-> "Err"]
         ELSE IF item.file_type = "err" THEN [cc |-> c, result |-> "Err"]
         ELSE lunka_src_loop_all_entries(cc_file(c, join(LunkaSrc, item.file_name)),
                                         Tail(items))

\* try_add_lunka_src: for result in read_dir(src)? { ... }
RECURSIVE lunka_src_loop(_, _)
lunka_src_loop(c, items) ==
    IF items = <<>> THEN [cc |-> c, result |-> "Ok"]
    ELSE LET item == Head(items) IN
         IF ~item.ok THEN [cc |-> c, result |-> "Err"]
         ELSE IF item.file_type = "err" THEN [cc |-> c, result |-> "Err"]
         ELSE IF item.file_type # "file" THEN lunka_src_loop(c, Tail(items))
         ELSE lunka_src_loop(cc_file(c, join(LunkaSrc, item.file_name)), Tail(items))

\* try_add_lunka_src: the include directory is registered before the source
\* directory is read
lunka_src(c, listing) ==
    LET c1 == cc_include(c, LunkaInclude) IN
    IF ~listing.ok THEN [cc |-> c1, result |-> "Err"]
    ELSE lunka_src_loop(c1, listing.items)

\* try_add_lua_src: const BINARIES
BINARIES == {<<"l","u","a",".","c">>, <<"l","u","a","c",".","c">>}

DotC == <<".","c">>

\* try_add_lua_src: the name tests, without the exclusion of BINARIES.
lua_src_accepts_binaries(item) ==
    /\ item.file_type = "file"
    /\ to_str(item.file_name) # None
    /\ ends_with(item.file_name, DotC)

\* try_add_lua_src: the tests an entry passes to reach cc.file
lua_src_accepts(item) ==
    /\ item.file_type = "file"
    /\ to_str(item.file_name) # None
    /\ ~(~ends_with(item.file_name, DotC) \/ item.file_name \in BINARIES)

\* try_add_lua_src: for result in read_dir(root)? { ... }
RECURSIVE lua_src_loop(_, _, _)
lua_src_loop(c, root, items) ==
    IF items = <<>> THEN [cc |-> c, result |-> "Ok"]
    ELSE LET item == Head(items) IN
         IF ~item.ok THEN [cc |-> c, result |-> "Err"]
         ELSE IF item.file_type = "err" THEN [cc |-> c, result |-> "Err"]
         ELSE IF ~lua_src_accepts(item) THEN lua_src_loop(c, root, Tail(items))
         ELSE lua_src_loop(cc_file(c, join(root, item.file_name)), root, Tail(items))

\* try_add_lua_src that looks for an error before it adds anything.
lua_src_all_or_nothing(c, root, listing) ==
    IF ~listing.ok \/ \E i \in 1..Len(listing.items) :
                          ~listing.items[i].ok \/ listing.items[i].file_type = "err"
    THEN [cc |-> c, result |-> "Err"]
    ELSE lua_src_loop(c, root, listing.items)

\* try_add_lua_src
lua_src(c, root, listing) ==
    IF ~listing.ok THEN [cc |-> c, result |-> "Err"]
    ELSE lua_src_loop(c, root, listing.items)

----------------------------------------------------------------------------
(* lua_conf.rs: LuaConf<S>, and Build::lua_conf.                           *)

\* LuaConf::default()
LuaConf_default ==
    [no_number_to_string |-> FALSE, no_string_to_number |-> FALSE,
     extra_space |-> None, id_size |-> None]

\* Build::lua_conf with the two coercion switches exchanged.
apply_lua_conf_swapped(c, lua_conf) ==
    LET c1 == IF lua_conf.no_string_to_number
              THEN define_flag(c, "LUNKA_NOCVTN2S") ELSE c
        c2 == IF lua_conf.no_number_to_string
              THEN define_flag(c1, "LUNKA_NOCVTS2N") ELSE c1
        c3 == IF lua_conf.extra_space # None
              THEN define_lit(c2, "LUNKA_EXTRASPACE", lua_conf.extra_space[1]) ELSE c2
    IN  IF lua_conf.id_size # None
        THEN define_lit(c3, "LUNKA_IDSIZE", lua_conf.id_size[1]) ELSE c3

\* Build::lua_conf: four independent ifs, in source order
apply_lua_conf(c, lua_conf) ==
    LET c1 == IF lua_conf.no_number_to_string
              THEN define_flag(c, "LUNKA_NOCVTN2S") ELSE c
        c2 == IF lua_conf.no_string_to_number
              THEN define_flag(c1, "LUNKA_NOCVTS2N") ELSE c1
        c3 == IF lua_conf.extra_space # None
              THEN define_lit(c2, "LUNKA_EXTRASPACE", lua_conf.extra_space[1]) ELSE c2
    IN  IF lua_conf.id_size # None
        THEN define_lit(c3, "LUNKA_IDSIZE", lua_conf.id_size[1]) ELSE c3

----------------------------------------------------------------------------
(* Operations.  Every method of Build is one action; its inputs are the    *)
(* parameters, which each specification below draws from its own sets.     *)

\* The symbols the methods of Build define
FeatureSymbols ==
    {"LUA_COMPAT_5_3", "LUA_COMPAT_MATH_LIB", "LUA_COMPAT_LT_LE", "LUA_USE_APICHECK",
     "LUA_PATH_DEFAULT", "LUA_CPATH_DEFAULT", "LUA_DIRSEP", "LUA_UCID",
     "LUNKA_NOCVTN2S", "LUNKA_NOCVTS2N", "LUNKA_EXTRASPACE", "LUNKA_IDSIZE"}

NoCalls == [s \in FeatureSymbols |-> 0]

\* try_new, the Ok path: the cc::Build it returns
new_cc(p, t) ==
    LET c1 == set_std(CcBuild_new, select_std(t, p.standards))
        c2 == [c1 EXCEPT !.warnings = Some(TRUE), !.extra_warnings = Some(TRUE)]
    IN  apply_platform_defines(c2, p.defines)

\* try_get_compiler()? failed: no compiler found
NoTool == None

\* Build::try_new(p); t is what try_get_compiler returns
try_new(p, t) ==
    /\ phase = "idle"
    /\ IF t = NoTool
       THEN /\ phase' = "failed"
            /\ last' = [op |-> "try_new", arg |-> p, result |-> "Err"]
            /\ UNCHANGED <<platform, tool, cc>>
       ELSE /\ phase' = "built"
            /\ platform' = Some(p)
            /\ tool' = t
            /\ cc' = new_cc(p, t[1])
            /\ last' = [op |-> "try_new", arg |-> p, result |-> "Ok"]
    /\ UNCHANGED <<triple, resolved, disk, calls, budget>>

\* A method can be called: the Build exists
Callable == phase = "built" /\ budget > 0

\* The history of a call and what no method touches.  defined: the symbols
\* the call defines.
Record(op, arg, result, defined) ==
    /\ budget' = budget - 1
    /\ last' = [op |-> op, arg |-> arg, result |-> result]
    /\ calls' = [s \in FeatureSymbols |-> calls[s] + (IF s \in defined THEN 1 ELSE 0)]
    /\ UNCHANGED <<triple, resolved, phase, platform, tool, disk>>

\* Build::try_compile(output): &self, the result is the collaborator's
try_compile(output, result) ==
    /\ Callable
    /\ cc' = cc
    /\ Record("try_compile", output, result, {})

\* Build::host
host(h) ==
    /\ Callable
    /\ cc' = [cc EXCEPT !.host = Some(h)]
    /\ Record("host", h, "Ok", {})

\* Build::out_dir
out_dir(path) ==
    /\ Callable
    /\ cc' = [cc EXCEPT !.out_dir = Some(path)]
    /\ Record("out_dir", path, "Ok", {})

\* Build::include
include(path) ==
    /\ Callable
    /\ cc' = cc_include(cc, path)
    /\ Record("include", path, "Ok", {})

\* Build::includes: cc.includes(paths) adds every path in order
includes(paths) ==
    /\ Callable
    /\ cc' = [cc EXCEPT !.include_directories = @ \o paths]
    /\ Record("includes", paths, "Ok", {})

\* Build::debug_info
debug_info(emit_debug_info) ==
    /\ Callable
    /\ cc' = [cc EXCEPT !.debug = Some(emit_debug_info)]
    /\ Record("debug_info", emit_debug_info, "Ok", {})

\* Build::opt_level
opt_level(n) ==
    /\ Callable
    /\ cc' = [cc EXCEPT !.opt_level = Some(n)]
    /\ Record("opt_level", n, "Ok", {})

\* Build::compat_lua_5_3
compat_lua_5_3 ==
    /\ Callable
    /\ cc' = define_flag(cc, "LUA_COMPAT_5_3")
    /\ Record("compat_lua_5_3", None, "Ok", {"LUA_COMPAT_5_3"})

\* Build::compat_math_lib
compat_math_lib ==
    /\ Callable
    /\ cc' = define_flag(cc, "LUA_COMPAT_MATH_LIB")
    /\ Record("compat_math_lib", None, "Ok", {"LUA_COMPAT_MATH_LIB"})

\* Build::compat_lt_le
compat_lt_le ==
    /\ Callable
    /\ cc' = define_flag(cc, "LUA_COMPAT_LT_LE")
    /\ Record("compat_lt_le", None, "Ok", {"LUA_COMPAT_LT_LE"})

\* Build::api_checks
api_checks ==
    /\ Callable
    /\ cc' = define_flag(cc, "LUA_USE_APICHECK")
    /\ Record("api_checks", None, "Ok", {"LUA_USE_APICHECK"})

\* Build::lua_lib_path
lua_lib_path(path) ==
    /\ Callable
    /\ cc' = define_str(cc, "LUA_PATH_DEFAULT", path)
    /\ Record("lua_lib_path", path, "Ok", {"LUA_PATH_DEFAULT"})

\* Build::lua_c_lib_path
lua_c_lib_path(path) ==
    /\ Callable
    /\ cc' = define_str(cc, "LUA_CPATH_DEFAULT", path)
    /\ Record("lua_c_lib_path", path, "Ok", {"LUA_CPATH_DEFAULT"})

\* Build::dir_separator
dir_separator(sep) ==
    /\ Callable
    /\ cc' = define_str(cc, "LUA_DIRSEP", sep)
    /\ Record("dir_separator", sep, "Ok", {"LUA_DIRSEP"})

\* Build::unicode_identifiers
unicode_identifiers ==
    /\ Callable
    /\ cc' = define_flag(cc, "LUA_UCID")
    /\ Record("unicode_identifiers", None, "Ok", {"LUA_UCID"})

\* Build::lua_conf
lua_conf(conf) ==
    /\ Callable
    /\ cc' = apply_lua_conf(cc, conf)
    /\ Record("lua_conf", conf, "Ok",
              {s \in {"LUNKA_NOCVTN2S"} : conf.no_number_to_string}
              \cup {s \in {"LUNKA_NOCVTS2N"} : conf.no_string_to_number}
              \cup {s \in {"LUNKA_EXTRASPACE"} : conf.extra_space # None}
              \cup {s \in {"LUNKA_IDSIZE"} : conf.id_size # None})

\* Build::try_add_lunka_src; read_dir(src) returns disk
try_add_lunka_src ==
    /\ Callable
    /\ cc' = lunka_src(cc, disk).cc
    /\ Record("try_add_lunka_src", None, lunka_src(cc, disk).result, {})

\* Build::try_add_lua_src(root); read_dir(root) returns disk
try_add_lua_src(root) ==
    /\ Callable
    /\ cc' = lua_src(cc, root, disk).cc
    /\ Record("try_add_lua_src", root, lua_src(cc, root, disk).result, {})

\* platforms::from_target_triple(triple), called on its own
FromTargetTriple ==
    /\ phase = "idle"
    /\ resolved = None
    /\ resolved' = Some(from_target_triple(triple))
    /\ last' = [op |-> "from_target_triple", arg |-> triple, result |-> "Ok"]
    /\ UNCHANGED <<triple, phase, platform, tool, cc, disk, calls, budget>>

\* Build::for_current() with CURRENT_TRIPLE = triple: it panics when the
\* triple resolves to no platform or when try_new fails
for_current(t) ==
    /\ phase = "idle"
    /\ LET r == from_target_triple(triple) IN
       IF r = None \/ t = NoTool
       THEN /\ phase' = "panicked"
            /\ last' = [op |-> "for_current", arg |-> triple, result |-> "panic"]
            /\ UNCHANGED <<platform, tool, cc>>
       ELSE /\ phase' = "built"
            /\ platform' = r
            /\ tool' = t
            /\ cc' = new_cc(r[1], t[1])
            /\ last' = [op |-> "for_current", arg |-> triple, result |-> "Ok"]
    /\ UNCHANGED <<triple, resolved, disk, calls, budget>>

----------------------------------------------------------------------------
(* Inputs.                                                                 *)

MaxCalls == 2       \* calls on one Build
MaxParts == 2       \* fragments a generated target triple is made of
MaxEntries == 2     \* entries of a generated directory listing
MaxLen == 3         \* characters of a generated string-define text

\* All sequences over S of length at most n
SeqsUpTo(S, n) == UNION {[1..k -> S] : k \in 0..n}

RECURSIVE Concat(_)
Concat(ss) == IF ss = <<>> THEN <<>> ELSE Head(ss) \o Concat(Tail(ss))

\* A platform of the caller's own (Platform is a public trait): it defines
\* a symbol a feature method also defines and names a different dialect for
\* every compiler family.
Custom ==
    [DEFINES |-> <<"LUA_USE_POSIX", "LUA_COMPAT_5_3">>,
     STANDARDS |-> [gnu |-> Some("gnu11"), clang |-> Some("c11"),
                    msvc |-> Some("c17"), clang_cl |-> Some("gnu17")]]

ConstPlatforms ==
    {Aix, Bsd, C89, FreeBsd, Ios, Linux, MacOsX, MinGw, Posix, Solaris, Windows}

Platforms == {AsPlatform(P) : P \in ConstPlatforms \cup {Custom}}

ToolResults == {NoTool} \cup {Some(t) : t \in Tools}

\* The target triples the documentation names
TripleLinuxGnu ==
    <<"x","8","6","_","6","4","-","u","n","k","n","o","w","n","-">> \o LitLinux
        \o <<"-","g","n","u">>
TripleWindowsMsvc ==
    <<"x","8","6","_","6","4","-","p","c","-">> \o LitWindows \o <<"-","m","s","v","c">>
TripleAppleDarwin == <<"a","a","r","c","h","6","4","-">> \o LitAppleDarwin
TripleSolaris211 ==
    <<"s","p","a","r","c","-","s","u","n","-">> \o LitSolaris \o <<"2",".","1","1">>
TripleUnknown ==
    <<"u","n","k","n","o","w","n","-","u","n","k","n","o","w","n","-",
      "u","n","k","n","o","w","n">>
TripleSparcv9Solaris == <<"s","p","a","r","c","v","9","-","s","u","n","-">> \o LitSolaris

ExampleTriples ==
    {TripleLinuxGnu, TripleWindowsMsvc, TripleAppleDarwin, TripleSolaris211,
     TripleUnknown, TripleSparcv9Solaris}

\* Pieces of which further triples are put together: the six literals, the
\* same words in another case, and neutral text
Fragments ==
    {LitLinux, LitBsd, LitAppleDarwin, LitAppleIos, LitSolaris, LitWindows,
     <<"L","i","n","u","x">>, <<"B","S","D">>, <<"-">>, <<"2",".","1","1">>,
     <<"x","8","6","-">>}

Triples ==
    ExampleTriples \cup {Concat(ps) : ps \in SeqsUpTo(Fragments, MaxParts)}

\* File names
NameFooC  == <<"f","o","o",".","c">>
NameBarH  == <<"b","a","r",".","h">>
NameLuaC  == <<"l","u","a",".","c">>
NameLuacC == <<"l","u","a","c",".","c">>
NameSub   == <<"s","u","b">>
NameLapiC == <<"l","a","p","i",".","c">>
NameLapiH == <<"l","a","p","i",".","h">>
NameLauxlibC == <<"l","a","u","x","l","i","b",".","c">>
NameBadC  == <<"f", Invalid, ".","c">>
NameC     == <<"c">>

\* Ok(DirEntry)
Entry(name, type) == [ok |-> TRUE, file_name |-> name, file_type |-> type]

\* Err(_) in place of an entry
EntryErr == [ok |-> FALSE, file_name |-> <<>>, file_type |-> "err"]

EntryPool ==
    {Entry(NameFooC, "file"), Entry(NameBarH, "file"), Entry(NameLuaC, "file"),
     Entry(NameLuacC, "file"), Entry(NameSub, "dir"), Entry(NameLapiC, "dir"),
     Entry(NameLauxlibC, "symlink"), Entry(NameBadC, "file"), Entry(NameC, "file"),
     Entry(NameLapiH, "err"), EntryErr}

\* Ok(ReadDir)
Listing(items) == [ok |-> TRUE, items |-> items]

\* read_dir(..) is Err
ListingErr == [ok |-> FALSE, items |-> <<>>]

\* The directory of the arbitrary-tree example: foo.c, bar.h, lua.c, luac.c, sub/
DirExample ==
    Listing(<<Entry(NameFooC, "file"), Entry(NameBarH, "file"), Entry(NameLuaC, "file"),
              Entry(NameLuacC, "file"), Entry(NameSub, "dir")>>)

\* The src directory of the bundled-tree example: lapi.c, lapi.h, lauxlib.c
DirBundled ==
    Listing(<<Entry(NameLapiC, "file"), Entry(NameLapiH, "file"),
              Entry(NameLauxlibC, "file")>>)

\* A directory whose second entry cannot be read
DirBroken ==
    Listing(<<Entry(NameFooC, "file"), EntryErr, Entry(NameLapiC, "file")>>)

Listings ==
    {DirExample, DirBundled, DirBroken, ListingErr}
        \cup {Listing(items) : items \in SeqsUpTo(EntryPool, MaxEntries)}

Roots == {"lua-src", "vendor/lua"}

\* Texts for the string defines
Alphabet == {"a", "\"", "\\"}

\* C:\path"with"quotes
TextExample ==
    <<"C", ":", "\\", "p", "a", "t", "h", "\"", "w", "i", "t", "h", "\"",
      "q", "u", "o", "t", "e", "s">>

\* ./?.lua and / : a search path and a separator without special characters
TextPath == <<".", "/", "?", ".", "l", "u", "a">>
TextSep == <<"/">>

Texts == {TextExample, TextPath} \cup SeqsUpTo(Alphabet, MaxLen)

\* Literal expressions for LuaConf
Lit16 == <<"1","6">>
LitSizeof == <<"s","i","z","e","o","f","(","i","n","t",")">>
Lit60 == <<"6","0">>

LuaConfs ==
    [no_number_to_string : BOOLEAN, no_string_to_number : BOOLEAN,
     extra_space : {None, Some(Lit16), Some(LitSizeof)},
     id_size : {None, Some(Lit60)}]

----------------------------------------------------------------------------
(* Specifications.                                                         *)

\* Before any call: no Build exists yet
Idle(t, d) ==
    /\ triple = t
    /\ resolved = None
    /\ phase = "idle"
    /\ platform = None
    /\ tool = None
    /\ cc = CcBuild_new
    /\ disk = d
    /\ calls = NoCalls
    /\ last = [op |-> "none", arg |-> None, result |-> "Ok"]
    /\ budget = MaxCalls

\* The whole life of a Build: construction for any platform and compiler,
\* then any calls, each with one or two sample inputs
Init == \E d \in {DirExample, DirBundled, DirBroken} : Idle(TripleLinuxGnu, d)

Next ==
    \/ \E p \in Platforms, t \in ToolResults : try_new(p, t)
    \/ \E result \in {"Ok", "Err"} : try_compile("lua", result)
    \/ \E h \in {"x86_64-unknown-linux-gnu", "x86_64-pc-windows-msvc"} : host(h)
    \/ \E path \in {"target/out", "target/lua"} : out_dir(path)
    \/ include(join("vendor/include", <<>>))
    \/ includes(<<join("a/include", <<>>), join("b/include", <<>>)>>)
    \/ \E b \in BOOLEAN : debug_info(b)
    \/ \E n \in {0, 2} : opt_level(n)
    \/ compat_lua_5_3
    \/ compat_math_lib
    \/ compat_lt_le
    \/ api_checks
    \/ lua_lib_path(TextPath)
    \/ lua_c_lib_path(TextPath)
    \/ dir_separator(TextSep)
    \/ unicode_identifiers
    \/ lua_conf([LuaConf_default EXCEPT !.no_number_to_string = TRUE,
                                        !.extra_space = Some(Lit16)])
    \/ try_add_lunka_src
    \/ try_add_lua_src("lua-src")

Spec == Init /\ [][Next]_vars

\* The state right after Build::new(p) with compiler t
Built(p, t, d) ==
    /\ triple = TripleLinuxGnu
    /\ resolved = None
    /\ phase = "built"
    /\ platform = Some(p)
    /\ tool = Some(t)
    /\ cc = new_cc(p, t)
    /\ disk = d
    /\ calls = NoCalls
    /\ last = [op |-> "try_new", arg |-> p, result |-> "Ok"]
    /\ budget = MaxCalls

\* The resolver: any triple, resolved on its own or by Build::for_current
InitResolve == \E t \in Triples : Idle(t, DirExample)

NextResolve ==
    \/ FromTargetTriple
    \/ \E t \in ToolResults : for_current(t)

SpecResolve == InitResolve /\ [][NextResolve]_vars

\* The string defines: any text
InitEscape == Built(AsPlatform(Linux), ToolGnu, DirExample)

NextEscape ==
    \/ \E path \in Texts : lua_lib_path(path)
    \/ \E path \in Texts : lua_c_lib_path(path)
    \/ \E sep \in Texts : dir_separator(sep)

SpecEscape == InitEscape /\ [][NextEscape]_vars

\* Source assembly: any directory content
InitSrc == \E d \in Listings : Built(AsPlatform(Linux), ToolGnu, d)

NextSrc ==
    \/ try_add_lunka_src
    \/ \E root \in Roots : try_add_lua_src(root)

SpecSrc == InitSrc /\ [][NextSrc]_vars

\* The defines: every feature method and any LuaConf
InitDefine == Idle(TripleLinuxGnu, DirExample)

NextDefine ==
    \/ \E p \in {AsPlatform(Linux), AsPlatform(Custom)} : try_new(p, Some(ToolGnu))
    \/ compat_lua_5_3
    \/ compat_math_lib
    \/ compat_lt_le
    \/ api_checks
    \/ unicode_identifiers
    \/ \E path \in {TextPath, TextExample} : lua_lib_path(path)
    \/ \E path \in {TextPath, TextExample} : lua_c_lib_path(path)
    \/ \E sep \in {TextSep} : dir_separator(sep)
    \/ \E conf \in LuaConfs : lua_conf(conf)

SpecDefine == InitDefine /\ [][NextDefine]_vars

----------------------------------------------------------------------------
(* Properties.  Each is stated on its own terms (subsequences, counts,     *)
(* explicit values), not through the operators that model the code.        *)

IsPrefix(s, t) == Len(s) <= Len(t) /\ SubSeq(t, 1, Len(s)) = s

\* The part of t that follows its first Len(s) elements
Added(s, t) == SubSeq(t, Len(s) + 1, Len(t))

\* pat occurs in s
HasInfix(s, pat) ==
    \E i \in 0..Len(s) : i + Len(pat) <= Len(s) /\ SubSeq(s, i + 1, i + Len(pat)) = pat

\* s ends in pat
HasSuffix(s, pat) ==
    Len(pat) <= Len(s) /\ SubSeq(s, Len(s) - Len(pat) + 1, Len(s)) = pat

\* How many pairs of a define list carry the name
CountName(defs, name) == Cardinality({i \in 1..Len(defs) : defs[i][1] = name})

\* How often a symbol occurs in a platform's defines
CountSym(syms, name) == Cardinality({i \in 1..Len(syms) : syms[i] = name})

\* The pairs try_new makes of a platform's defines
FlagPairs(syms) == [i \in 1..Len(syms) |-> <<syms[i], None>>]

Descriptor(P) == [defines |-> P.DEFINES, standards |-> P.STANDARDS]

\* A directory entry that is a regular file
Regular(e) == e.ok /\ e.file_type = "file"

\* A regular file whose name is text, ends in ".c" and is neither lua.c nor
\* luac.c
Eligible(e) ==
    /\ Regular(e)
    /\ \A i \in 1..Len(e.file_name) : e.file_name[i] # "?"
    /\ HasSuffix(e.file_name, <<".", "c">>)
    /\ e.file_name # <<"l","u","a",".","c">>
    /\ e.file_name # <<"l","u","a","c",".","c">>

\* The entries as paths in directory d
PathsOf(d, entries) ==
    [i \in 1..Len(entries) |-> [dir |-> d, file |-> entries[i].file_name]]

\* The bundled tree
BundledInclude == [dir |-> "CARGO_MANIFEST_DIR/lua-5.4.8/include", file |-> <<>>]
BundledSrc == "CARGO_MANIFEST_DIR/lua-5.4.8/src"

----------------------------------------------------------------------------
\* Reading a C string literal back

\* The text of a C string literal body (after the opening quote), or None
\* when it is no single well-formed literal
RECURSIVE CLiteralBody(_)
CLiteralBody(s) ==
    IF s = <<>> THEN None
    ELSE IF Head(s) = "\"" THEN (IF Tail(s) = <<>> THEN Some(<<>>) ELSE None)
    ELSE IF Head(s) = "\\"
         THEN IF Len(s) >= 2 /\ s[2] \in {"\\", "\""}
              THEN LET rest == CLiteralBody(SubSeq(s, 3, Len(s))) IN
                   IF rest = None THEN None ELSE Some(<<s[2]>> \o rest[1])
              ELSE None
    ELSE LET rest == CLiteralBody(Tail(s)) IN
         IF rest = None THEN None ELSE Some(<<Head(s)>> \o rest[1])

CLiteral(s) == IF s # <<>> /\ Head(s) = "\"" THEN CLiteralBody(Tail(s)) ELSE None

StrOps == {"lua_lib_path", "lua_c_lib_path", "dir_separator"}

\* C1: the value define_str hands to the define list is a double-quoted
\* literal that, read back by the C rules for string literals (\\ is a
\* backslash, \" is a quote, an unescaped quote ends the literal), is the
\* original text, for every text over the alphabet with quote and backslash.
C1_EscapeRoundTrips ==
    last.op \in StrOps =>
        LET d == cc.definitions[Len(cc.definitions)] IN
        /\ d[2] # None
        /\ CLiteral(d[2][1]) = Some(last.arg)

----------------------------------------------------------------------------
\* C2 as stated: the five example triples resolve to Linux, Windows, macOS,
\* Solaris and no platform.
C2_ExamplesAsStated ==
    resolved # None =>
        /\ triple = TripleLinuxGnu => resolved[1] = Some(Descriptor(Linux))
        /\ triple = TripleWindowsMsvc => resolved[1] = Some(Descriptor(Windows))
        /\ triple = TripleAppleDarwin => resolved[1] = Some(Descriptor(MacOsX))
        /\ triple = TripleSolaris211 => resolved[1] = Some(Descriptor(Solaris))
        /\ triple = TripleUnknown => resolved[1] = None

\* C2 amended: x86_64-unknown-linux-gnu resolves to Linux,
\* x86_64-pc-windows-msvc to Windows, aarch64-apple-darwin to macOS, and
\* both sparc-sun-solaris2.11 and unknown-unknown-unknown to no platform; a
\* triple that ends in "solaris", sparcv9-sun-solaris, resolves to Solaris.
C2_Examples ==
    resolved # None =>
        /\ triple = TripleLinuxGnu => resolved[1] = Some(Descriptor(Linux))
        /\ triple = TripleWindowsMsvc => resolved[1] = Some(Descriptor(Windows))
        /\ triple = TripleAppleDarwin => resolved[1] = Some(Descriptor(MacOsX))
        /\ triple = TripleSolaris211 => resolved[1] = None
        /\ triple = TripleSparcv9Solaris => resolved[1] = Some(Descriptor(Solaris))
        /\ triple = TripleUnknown => resolved[1] = None

C2_Witness == resolved # None /\ triple = TripleSolaris211

----------------------------------------------------------------------------
\* The Standards field that belongs to a compiler: clang-cl before MSVC
FamilyField(t) ==
    IF t.clang_cl THEN "clang_cl"
    ELSE IF t.gnu THEN "gnu"
    ELSE IF t.clang THEN "clang"
    ELSE "msvc"

\* C3: the dialect of a Build is the Standards field of the detected
\* compiler family: gnu for a GNU-like compiler, clang for a Clang-like one,
\* clang_cl for clang-cl (which reports both is_like_msvc and
\* is_like_clang_cl), msvc for any other MSVC-like one; unset when that
\* field is empty.
C3_DialectOfFamily ==
    phase = "built" => cc.std = platform[1].standards[FamilyField(tool[1])]

----------------------------------------------------------------------------
\* The two source-assembly methods
SrcOps == {"try_add_lua_src", "try_add_lunka_src"}

\* C4: a source-assembly call that returns an I/O error leaves the file
\* list and the include-path list as they were before the call.
C4_ErrorIsAllOrNothing ==
    [][(last'.op \in SrcOps /\ last'.result = "Err") =>
            /\ cc'.files = cc.files
            /\ cc'.include_directories = cc.include_directories]_vars

\* An entry result that makes the call return Err
Unreadable(e) == ~e.ok \/ e.file_type = "err"

\* The entries before the first unreadable one
BeforeError(items) ==
    LET bad == {i \in 1..Len(items) : Unreadable(items[i])}
    IN  IF bad = {} THEN items
        ELSE SubSeq(items, 1, (CHOOSE i \in bad : \A j \in bad : i <= j) - 1)

\* C4 amended: a source-assembly call that returns an I/O error keeps what
\* it did before the error: the file list is the list before the call
\* followed by the files taken from the entries that precede the first
\* unreadable one (none when the directory cannot be listed), nothing is
\* removed, and try_add_lunka_src has registered its include path while
\* try_add_lua_src leaves the include paths as they were.
C4_ErrorKeepsPartial ==
    [][(last'.op \in SrcOps /\ last'.result = "Err" /\ budget' # budget) =>
            LET seen == IF disk.ok THEN BeforeError(disk.items) ELSE <<>> IN
            /\ ~disk.ok \/ \E i \in 1..Len(disk.items) : Unreadable(disk.items[i])
            /\ last'.op = "try_add_lua_src" =>
                   /\ cc'.files = cc.files \o PathsOf(last'.arg, SelectSeq(seen, Eligible))
                   /\ cc'.include_directories = cc.include_directories
            /\ last'.op = "try_add_lunka_src" =>
                   /\ cc'.files = cc.files \o PathsOf(BundledSrc, SelectSeq(seen, Regular))
                   /\ cc'.include_directories =
                          Append(cc.include_directories, BundledInclude)]_vars

\* foo.c was added, then the second entry could not be read
C4_Witness ==
    /\ last.op = "try_add_lua_src"
    /\ last.result = "Err"
    /\ disk = DirBroken
    /\ cc.files = <<[dir |-> last.arg, file |-> NameFooC]>>

----------------------------------------------------------------------------
\* C5: when try_add_lua_src meets no I/O error, it appends, in directory
\* order, exactly the entries that are regular files with a name that is
\* valid text, ends in ".c" and is neither "lua.c" nor "luac.c", each as
\* root/name; it adds no include path; for the directory foo.c, bar.h,
\* lua.c, luac.c, sub/ it appends exactly root/foo.c.
C5_LuaSrcFilter ==
    [][(last'.op = "try_add_lua_src" /\ last'.result = "Ok" /\ budget' # budget) =>
            /\ cc'.files = cc.files \o PathsOf(last'.arg, SelectSeq(disk.items, Eligible))
            /\ cc'.include_directories = cc.include_directories
            /\ disk = DirExample =>
                   cc'.files = Append(cc.files, [dir |-> last'.arg, file |-> NameFooC])]_vars

C5_Witness ==
    /\ last.op = "try_add_lua_src"
    /\ last.result = "Ok"
    /\ disk = DirExample
    /\ cc.files = <<[dir |-> last.arg, file |-> NameFooC]>>

----------------------------------------------------------------------------
\* C6: try_add_lunka_src registers the include directory of the bundled
\* tree exactly once per call; when it meets no I/O error it appends, in
\* directory order, every regular file of the src directory whatever its
\* name, and nothing else: no directory, no other kind of entry, nothing
\* from the include directory.  For src = lapi.c, lapi.h, lauxlib.c all
\* three are appended.
C6_LunkaSrcAll ==
    [][(last'.op = "try_add_lunka_src" /\ budget' # budget) =>
            /\ cc'.include_directories = Append(cc.include_directories, BundledInclude)
            /\ last'.result = "Ok" =>
                   /\ cc'.files = cc.files \o PathsOf(BundledSrc, SelectSeq(disk.items, Regular))
                   /\ disk = DirBundled =>
                          Added(cc.files, cc'.files) =
                              <<[dir |-> BundledSrc, file |-> NameLapiC],
                                [dir |-> BundledSrc, file |-> NameLapiH],
                                [dir |-> BundledSrc, file |-> NameLauxlibC]>>]_vars

C6_Witness ==
    /\ last.op = "try_add_lunka_src"
    /\ last.result = "Ok"
    /\ disk = DirBundled
    /\ Len(cc.files) = 3
    /\ cc.include_directories = <<BundledInclude>>

----------------------------------------------------------------------------
\* The define list holds the pair
Holds(defs, pair) == \E i \in 1..Len(defs) : defs[i] = pair

FieldsSet(conf) ==
    (IF conf.no_number_to_string THEN 1 ELSE 0) + (IF conf.no_string_to_number THEN 1 ELSE 0)
        + Len(conf.extra_space) + Len(conf.id_size)

\* C7: lua_conf appends LUNKA_NOCVTN2S without a value iff
\* no_number_to_string, LUNKA_NOCVTS2N without a value iff
\* no_string_to_number, LUNKA_EXTRASPACE with the given text iff extra_space
\* is present, LUNKA_IDSIZE with the given text iff id_size is present, and
\* nothing else; with only extra_space set it appends exactly one define, a
\* literal, and with the default configuration none.
C7_LuaConfPerField ==
    [][(last'.op = "lua_conf" /\ budget' # budget) =>
            LET conf == last'.arg
                new == Added(cc.definitions, cc'.definitions)
            IN  /\ IsPrefix(cc.definitions, cc'.definitions)
                /\ Len(new) = FieldsSet(conf)
                /\ Holds(new, <<"LUNKA_NOCVTN2S", None>>) <=> conf.no_number_to_string
                /\ Holds(new, <<"LUNKA_NOCVTS2N", None>>) <=> conf.no_string_to_number
                /\ \A text \in {Lit16, LitSizeof, Lit60} :
                       /\ Holds(new, <<"LUNKA_EXTRASPACE", Some(text)>>)
                              <=> conf.extra_space = Some(text)
                       /\ Holds(new, <<"LUNKA_IDSIZE", Some(text)>>)
                              <=> conf.id_size = Some(text)
                /\ conf = [no_number_to_string |-> FALSE, no_string_to_number |-> FALSE,
                           extra_space |-> Some(Lit16), id_size |-> None]
                       => new = << <<"LUNKA_EXTRASPACE", Some(Lit16)>> >>
                /\ conf = [no_number_to_string |-> FALSE, no_string_to_number |-> FALSE,
                           extra_space |-> None, id_size |-> None]
                       => new = <<>>]_vars

C7_Witness ==
    /\ last.op = "lua_conf"
    /\ last.arg = [no_number_to_string |-> FALSE, no_string_to_number |-> FALSE,
                   extra_space |-> Some(Lit16), id_size |-> None]
    /\ cc.definitions = << <<"LUA_USE_LINUX", None>>, <<"LUNKA_EXTRASPACE", Some(Lit16)>> >>

----------------------------------------------------------------------------
\* C8: defines are never deduplicated: in every state of a Build, each
\* symbol the methods define occurs in the define list as often as calls
\* defined it, plus as often as the platform's defines hold it.
C8_NoDeduplication ==
    phase = "built" =>
        \A sym \in FeatureSymbols :
            CountName(cc.definitions, sym) =
                calls[sym] + CountSym(platform[1].defines, sym)

\* compat_lua_5_3 called twice on a platform that defines LUA_COMPAT_5_3 itself
C8_Witness ==
    /\ phase = "built"
    /\ calls["LUA_COMPAT_5_3"] = 2
    /\ CountName(cc.definitions, "LUA_COMPAT_5_3") = 3

----------------------------------------------------------------------------
\* The six tests in the order of the source, and their descriptors
TestHolds(t, i) ==
    CASE i = 1 -> HasInfix(t, <<"l","i","n","u","x">>)
      [] i = 2 -> HasSuffix(t, <<"b","s","d">>)
      [] i = 3 -> HasSuffix(t, <<"a","p","p","l","e","-","d","a","r","w","i","n">>)
      [] i = 4 -> HasSuffix(t, <<"a","p","p","l","e","-","i","o","s">>)
      [] i = 5 -> HasSuffix(t, <<"s","o","l","a","r","i","s">>)
      [] i = 6 -> HasInfix(t, <<"w","i","n","d","o","w","s">>)

TestDescriptor ==
    <<Descriptor(Linux), Descriptor(FreeBsd), Descriptor(MacOsX), Descriptor(Ios),
      Descriptor(Solaris), Descriptor(Windows)>>

\* C9: from_target_triple returns the descriptor of the first of the tests
\* contains "linux", ends with "bsd", ends with "apple-darwin", ends with
\* "apple-ios", ends with "solaris", contains "windows" that holds (tests
\* are case-sensitive), and none when no test holds; a triple ending in
\* "bsd" gets the defines of Linux, <<LUA_USE_LINUX>>; every result has the
\* default standards and is none of Aix, Bsd, C89, MinGw, Posix.
C9_FirstMatchWins ==
    resolved # None =>
        LET r == resolved[1] IN
        /\ \A i \in 1..6 :
               (TestHolds(triple, i) /\ \A j \in 1..(i - 1) : ~TestHolds(triple, j))
                   => r = Some(TestDescriptor[i])
        /\ (\A i \in 1..6 : ~TestHolds(triple, i)) => r = None
        /\ (HasSuffix(triple, <<"b","s","d">>) /\ r # None) =>
               r[1].defines = <<"LUA_USE_LINUX">> /\ r[1].defines = Linux.DEFINES
        /\ r # None =>
               /\ r[1].standards = [gnu |-> Some("gnu99"), clang |-> Some("gnu99"),
                                    msvc |-> Some("c99"), clang_cl |-> Some("gnu99")]
               /\ r[1] \notin {Descriptor(Aix), Descriptor(Bsd), Descriptor(C89),
                               Descriptor(MinGw), Descriptor(Posix)}
               /\ Cardinality({TestDescriptor[i] : i \in 1..6}) = 5

\* A triple that passes two tests of each kind of overlap has been resolved
C9_Witness ==
    /\ resolved # None
    /\ HasInfix(triple, <<"w","i","n","d","o","w","s">>)
    /\ HasSuffix(triple, <<"s","o","l","a","r","i","s">>)
    /\ resolved[1] = Some(Descriptor(Solaris))

----------------------------------------------------------------------------
\* The parts of the commitment: at construction, in every state, in every step
Families == {"gnu", "clang", "msvc", "clang_cl"}

C10_AtConstruction ==
    (phase = "built" /\ last.op = "try_new") =>
        /\ cc.definitions = FlagPairs(platform[1].defines)
        /\ cc.warnings = Some(TRUE)
        /\ cc.extra_warnings = Some(TRUE)
        /\ \E f \in Families : tool[1][f] /\ cc.std = platform[1].standards[f]
        /\ cc.include_directories = <<>>
        /\ cc.files = <<>>

C10_Committed ==
    phase = "built" =>
        /\ IsPrefix(FlagPairs(platform[1].defines), cc.definitions)
        /\ cc.warnings = Some(TRUE)
        /\ cc.extra_warnings = Some(TRUE)

C10_Step ==
    phase = "built" =>
        /\ cc'.std = cc.std
        /\ IsPrefix(cc.definitions, cc'.definitions)
        /\ IsPrefix(cc.include_directories, cc'.include_directories)
        /\ IsPrefix(cc.files, cc'.files)
        /\ last'.op = "try_compile" => cc' = cc

=============================================================================
